---- MODULE Spec2Model ----
(***************************************************************************)
(* Model of src/pipeline_cal.py: the baseline enumeration get_bl_order,   *)
(* the attenuation corrector apply_attn_corr and the feed-rotation        *)
(* corrector unrot, acting on a caller-owned visibility dataset.          *)
(*                                                                         *)
(* Number representation (exact, no floating point):                      *)
(*   - a visibility or power cell is a record [re, im, e] standing for    *)
(*     (re + i*im) * 10^(e/Decade); it is kept canonical (re, im not both *)
(*     divisible by 10; the zero cell has e = 0), so equal values are     *)
(*     equal records;                                                      *)
(*   - gains are counted in half-dB (so that np.median of an even number  *)
(*     of integer samples stays an integer): a gain of g dB is 2g, and    *)
(*     10**(g/20.) is the exponent step 2g/Decade with Decade = 40;       *)
(*   - angles (chi, dph) are counted in quarter turns, so cos, sin and    *)
(*     exp(1j*a) are exact; np.pi/2 is HalfPi = 1;                        *)
(*   - frequencies are counted in tenths of a GHz, times in integer ticks.*)
(* Arrays are functions over 0..n-1, as the source indexes them.          *)
(***************************************************************************)
EXTENDS Integers, Sequences, FiniteSets, TLC

(* ---------------------------- bounds ----------------------------------- *)
\* number of dataset time samples (nt of data['x'])
NT == 2
\* number of dataset frequencies (nf; the px/py layout's 134 slots)
NF == 2
\* number of corrector calls in one behaviour
MaxCalls == 2

(* ------------------------ program constants ---------------------------- *)
n_ants == 16
NAntGain == 15
NBands == 34
XYAnts == 14
RefAnt == 13
NMoments == 3
HalfPi == 1
Decade == 40

Abs(v) == IF v < 0 THEN -v ELSE v
Range0(n) == 0 .. (n - 1)
\* length of a 0-based array
Len0(a) == Cardinality(DOMAIN a)

(* ----------------------- exact cell arithmetic ------------------------- *)
RECURSIVE vNorm(_, _, _)
vNorm(re, im, e) ==
    IF re = 0 /\ im = 0 THEN [re |-> 0, im |-> 0, e |-> 0]
    ELSE IF re % 10 = 0 /\ im % 10 = 0
         THEN vNorm(re \div 10, im \div 10, e + Decade)
         ELSE [re |-> re, im |-> im, e |-> e]

RECURSIVE Pow10(_)
Pow10(k) == IF k <= 0 THEN 1 ELSE 10 * Pow10(k - 1)

vIsZero(v) == v.re = 0 /\ v.im = 0

\* v * c for an integer c
vScale(v, c) == vNorm(v.re * c, v.im * c, v.e)

\* a + b; the two exponents differ by whole decades in every sum the program forms
vAdd(a, b) ==
    IF vIsZero(a) THEN b
    ELSE IF vIsZero(b) THEN a
    ELSE IF a.e >= b.e
         THEN LET m == Pow10((a.e - b.e) \div Decade)
              IN  vNorm(a.re * m + b.re, a.im * m + b.im, b.e)
         ELSE LET m == Pow10((b.e - a.e) \div Decade)
              IN  vNorm(a.re + b.re * m, a.im + b.im * m, a.e)

\* v * exp(1j*a), a in quarter turns
vMulUnit(v, a) ==
    LET q == a % 4
    IN  IF q = 0 THEN v
        ELSE IF q = 1 THEN [re |-> -v.im, im |-> v.re, e |-> v.e]
        ELSE IF q = 2 THEN [re |-> -v.re, im |-> -v.im, e |-> v.e]
        ELSE [re |-> v.im, im |-> -v.re, e |-> v.e]

\* a real gain factor: zero (z) or 10^(e/Decade)
gZero == [z |-> TRUE, e |-> 0]
gPow(e) == [z |-> FALSE, e |-> e]

\* v * g
vGain(v, g) ==
    IF g.z \/ vIsZero(v) THEN [re |-> 0, im |-> 0, e |-> 0]
    ELSE [re |-> v.re, im |-> v.im, e |-> v.e + g.e]

\* np.cos, np.sin of an angle in quarter turns
Cos(a) == LET q == a % 4 IN IF q = 0 THEN 1 ELSE IF q = 2 THEN -1 ELSE 0
Sin(a) == LET q == a % 4 IN IF q = 1 THEN 1 ELSE IF q = 3 THEN -1 ELSE 0

(* --------------------------- get_bl_order ------------------------------ *)
InSeq(o, s) == \E m \in DOMAIN s : s[m] = o

\* the passes of the two nested loops of get_bl_order in the order they run:
\* pass s (from 1) has i = (s-1) div 9, j = 8 - (s-1) mod 9, k = (i-j) % n_ants
BlSteps ==
    LET half == n_ants \div 2
    IN  [s \in 1 .. (n_ants * (half + 1)) |->
            LET i == (s - 1) \div (half + 1)
                j == half - ((s - 1) % (half + 1))
            IN  <<i, (i - j) % n_ants>>]

\* order1: the passes with i >= k, each appending (k, i)
BlOrder1 ==
    LET hit == SelectSeq(BlSteps, LAMBDA ik : ik[1] >= ik[2])
    IN  [m \in 1 .. Len(hit) |-> <<hit[m][2], hit[m][1]>>]

\* order2: the other passes, each appending (i, k)
BlOrder2 == SelectSeq(BlSteps, LAMBDA ik : ik[1] < ik[2])

\* faulty variant of BlFilter: order2 kept whole
BlFilterNone(order1, order2) == order2

\* order2 = [o for o in order2 if o not in order1]
BlFilter(order1, order2) == SelectSeq(order2, LAMBDA o : ~InSeq(o, order1))

get_bl_order == BlOrder1 \o BlFilter(BlOrder1, BlOrder2)

\* enumerate(get_bl_order()): baseline k (0-based) is the pair bl(k)
bl(k) == get_bl_order[k + 1]

(* ------------------- external collaborators (util.py) ------------------ *)
\* nearest_val_idx(a, b): for each a[n], the index into b of the value nearest
\* to it in absolute difference (the lowest such index)
nearest_val_idx(a, b) ==
    [n \in DOMAIN a |->
        CHOOSE m \in DOMAIN b :
            /\ \A m2 \in DOMAIN b : Abs(a[n] - b[m]) <= Abs(a[n] - b[m2])
            /\ \A m2 \in DOMAIN b : Abs(a[n] - b[m2]) = Abs(a[n] - b[m]) => m <= m2]

\* the k-th smallest element (k from 0) of a finite set of integers
RECURSIVE SortedSeq(_)
SortedSeq(S) ==
    IF S = {} THEN <<>>
    ELSE LET lo == CHOOSE v \in S : \A w \in S : v <= w
         IN  <<lo>> \o SortedSeq(S \ {lo})

\* a 1-based sequence as a 0-based array
Arr(s) == [m \in Range0(Len(s)) |-> s[m + 1]]

\* np.where(a != 0)[0]: the indices of the non-zero entries of a 0-based array, ascending
WhereNonZero(a) == Arr(SortedSeq({m \in DOMAIN a : a[m] # 0}))

\* a[good]: fancy indexing of a 0-based array by a 0-based index array
Take(a, good) == [m \in DOMAIN good |-> a[good[m]]]

\* common_val_idx(a, b): the indices into a and into b of the values the two
\* arrays share, in ascending order of value
common_val_idx(a, b) ==
    LET common == SortedSeq({a[m] : m \in DOMAIN a} \cap {b[m] : m \in DOMAIN b})
        ia == [q \in Range0(Len(common)) |-> CHOOSE m \in DOMAIN a : a[m] = common[q + 1]]
        ib == [q \in Range0(Len(common)) |-> CHOOSE m \in DOMAIN b : b[m] = common[q + 1]]
    IN  <<ia, ib>>

\* lobe(x): the angle reduced to [-pi, pi), in quarter turns
lobe(a) == ((a + 2) % 4) - 2

\* 2 * np.median(s) of a 0-based array of integers
Median2(s) ==
    LET c == Len0(s)
        rank(m) == Cardinality({m2 \in DOMAIN s : s[m2] < s[m] \/ (s[m2] = s[m] /\ m2 < m)})
        at(r) == s[CHOOSE m \in DOMAIN s : rank(m) = r]
    IN  IF c % 2 = 1 THEN 2 * at(c \div 2) ELSE at(c \div 2 - 1) + at(c \div 2)

(* ------------------------------ state ---------------------------------- *)
VARIABLES
    data,       \* the caller's dataset: time, fghz, x, px, py
    data0,      \* the dataset as it was when the latest call began (history)
    azeldict,   \* the caller's geometry: Time, ActualAzimuth, ParallacticAngle
    chi0,       \* azeldict's ParallacticAngle as the caller built it (history)
    cal,        \* the type-11 calibration record: fghz, dph
    src_gs,     \* get_gain_state(trange, dt): the gain state over the data
    ref_gs,     \* get_gain_state(trefrange): the gain state at the reference
    cdata,      \* the corrector's copy, as it stands when the call ends
    ret,        \* how the last call ended: "none", "returned" or an exception
    loc,        \* locals of the last call (op, blist, idx, tidx, missing, dchi...)
    blorder,    \* the value of the latest get_bl_order() call, <<>> before any
    blfirst,    \* the value of the first get_bl_order() call, <<>> before any
    ncalls,     \* corrector calls made so far
    ucalls      \* unrot calls made so far with the caller's azeldict

vars == <<data, data0, azeldict, chi0, cal, src_gs, ref_gs, cdata, ret, loc,
          blorder, blfirst, ncalls, ucalls>>

NoData == [none |-> TRUE]

(* ------------------------------ inputs --------------------------------- *)
\* frequency axes in tenths of a GHz: on band edges (0), and inside bands (1)
FreqAxis(fpat) ==
    IF fpat = 0 THEN [f \in Range0(NF) |-> 25 + 5 * f]
    ELSE [f \in Range0(NF) |-> 29 + 6 * f]

NPx == NF * n_ants * NMoments

DataSet(fpat, seed) ==
    [time |-> [n \in Range0(NT) |-> 10 * (n + 1)],
     fghz |-> FreqAxis(fpat),
     x    |-> [f \in Range0(NF) |-> [k \in Range0(136) |-> [p \in Range0(4) |->
                 [n \in Range0(NT) |->
                     vNorm(1 + ((seed + f + k + p + n) % 3),
                           ((2 * seed + k + 3 * p + f + 2 * n) % 4) - 1, 0)]]]],
     px   |-> [r \in Range0(NPx) |-> [n \in Range0(NT) |->
                 vNorm(1 + ((r + n + seed) % 4), 0, 0)]],
     py   |-> [r \in Range0(NPx) |-> [n \in Range0(NT) |->
                 vNorm(2 + ((r + 2 * n + seed) % 3), 0, 0)]]]

\* a gain state of cnt samples; seed 0 is the constant state, the others vary
\* with antenna, time and band; tpat 0 samples on the data's grid, 1 and 2 off it
GainState(seed, cnt, tpat) ==
    [times   |-> [m \in Range0(cnt) |->
                    IF tpat = 0 THEN 10 * (m + 1) ELSE IF tpat = 1 THEN 8 + 7 * m ELSE 17 + 7 * m],
     h1      |-> [a \in Range0(NAntGain) |-> [m \in Range0(cnt) |->
                    (a % 3) + seed * ((a + m) % 2)]],
     h2      |-> [a \in Range0(NAntGain) |-> [m \in Range0(cnt) |->
                    ((a + 1) % 2) + (seed \div 2) * (m % 2)]],
     v1      |-> [a \in Range0(NAntGain) |-> [m \in Range0(cnt) |->
                    ((a + 2) % 3) + seed * ((a + m + 1) % 2)]],
     v2      |-> [a \in Range0(NAntGain) |-> [m \in Range0(cnt) |->
                    (a % 2) + (seed \div 2) * ((m + 1) % 2)]],
     dcmattn |-> [a \in Range0(NAntGain) |-> [p \in Range0(2) |-> [b \in Range0(NBands) |->
                    2 * ((a + p + b) % 4) + 3 * seed * ((a + b) % 2)]]]]

SrcChoices ==
    {GainState(0, NT, 0), GainState(1, NT, 0), GainState(2, NT, 2),
     GainState(1, NT + 1, 1)}
    \cup (IF NT > 1 THEN {GainState(1, NT - 1, 0)} ELSE {})

RefChoices == {GainState(0, 3, 0), GainState(1, 2, 0)}

(* --------------------------- apply_attn_corr --------------------------- *)
\* astype(int): truncation toward zero of num/den
Trunc(num, den) == IF num >= 0 THEN num \div den ELSE -((-num) \div den)

\* rounding of num/den to the nearest integer (den > 0; no halves arise)
Round(num, den) == (2 * num + den) \div (2 * den)

\* faulty variant of Band: the band taken by rounding
BandRounded(fghz) == Round(fghz * 2 - 10, 10) - 1

\* (fghz*2 - 1).astype(int) - 1, fghz in tenths of a GHz
Band(fghz) == Trunc(fghz * 2 - 10, 10) - 1

\* antgain[i, pol, blist[f], t] in half-dB, for the bands of the data's frequencies
AntGain(src, ref, blist) ==
    LET rh1 == [i \in Range0(NAntGain) |-> Median2(ref.h1[i])]
        rh2 == [i \in Range0(NAntGain) |-> Median2(ref.h2[i])]
        rv1 == [i \in Range0(NAntGain) |-> Median2(ref.v1[i])]
        rv2 == [i \in Range0(NAntGain) |-> Median2(ref.v2[i])]
    IN  [i \in Range0(NAntGain) |-> [pol \in Range0(2) |-> [f \in DOMAIN blist |->
            [t \in DOMAIN src.times |->
                IF pol = 0
                THEN 2 * (src.h1[i][t] + src.h2[i][t]) - rh1[i] - rh2[i]
                     + 2 * (src.dcmattn[i][0][blist[f]] - ref.dcmattn[i][0][blist[f]])
                ELSE 2 * (src.v1[i][t] + src.v2[i][t]) - rv1[i] - rv2[i]
                     + 2 * (src.dcmattn[i][1][blist[f]] - ref.dcmattn[i][1][blist[f]])]]]]

\* the polarizations (of i, of j) that product p combines
PolI(p) == IF p = 0 \/ p = 2 THEN 0 ELSE 1
PolJ(p) == IF p = 0 \/ p = 3 THEN 0 ELSE 1

\* blgain[f, k, p, t]: np.zeros, filled where both antennas are below 15
BlGain(ag, f, k, p, t) ==
    LET i == bl(k)[1]
        j == bl(k)[2]
    IN  IF i < NAntGain /\ j < NAntGain
        THEN gPow(ag[i][PolI(p)][f][t] + ag[j][PolJ(p)][f][t])
        ELSE gZero

\* 10**(antgain[blist]/10.)
AntGainF(ag, f, a, pol, t) == gPow(2 * ag[a][pol][f][t])
gSquare(g) == gPow(2 * g.e)

\* cdata['px'][:,:15,0] *= antgainf ; cdata['px'][:,:15,1] *= antgainf**2
PowerCorr(pw, ag, pol, idx) ==
    [r \in DOMAIN pw |-> [n \in DOMAIN pw[r] |->
        LET f == r \div (n_ants * NMoments)
            a == (r \div NMoments) % n_ants
            m == r % NMoments
        IN  IF a < NAntGain /\ m = 0 THEN vGain(pw[r][n], AntGainF(ag, f, a, pol, idx[n]))
            ELSE IF a < NAntGain /\ m = 1
                 THEN vGain(pw[r][n], gSquare(AntGainF(ag, f, a, pol, idx[n])))
                 ELSE pw[r][n]]]

\* cdata['x'] *= blgain[:,:,:,idx]
GainX(x, ag, idx) ==
    [f \in DOMAIN x |-> [k \in DOMAIN x[f] |-> [p \in DOMAIN x[f][k] |->
        [n \in DOMAIN x[f][k][p] |-> vGain(x[f][k][p][n], BlGain(ag, f, k, p, idx[n]))]]]]

ApplyAttnCorr ==
    /\ ncalls < MaxCalls
    /\ \E blist \in {[f \in DOMAIN data.fghz |-> Band(data.fghz[f])]},
          idx \in {nearest_val_idx(data.time, src_gs.times)} :
       \E ag \in {AntGain(src_gs, ref_gs, blist)} :
          LET nt == Len0(src_gs.times)
              \* cdata['px'].shape = (134,16,3,nt): needs nt columns
              fits == nt = Len0(data.time)
          IN  /\ cdata' = IF fits
                          THEN [data EXCEPT !.x = GainX(data.x, ag, idx),
                                            !.px = PowerCorr(data.px, ag, 0, idx),
                                            !.py = PowerCorr(data.py, ag, 1, idx)]
                          ELSE [data EXCEPT !.x = GainX(data.x, ag, idx)]
              /\ ret' = IF fits THEN "returned" ELSE "ValueError"
              /\ loc' = [op |-> "apply_attn_corr", nt |-> nt, blist |-> blist,
                         idx |-> idx]
    /\ blorder' = get_bl_order
    /\ blfirst' = IF blfirst = <<>> THEN get_bl_order ELSE blfirst
    /\ ncalls' = ncalls + 1
    /\ data0' = data
    /\ UNCHANGED <<data, azeldict, chi0, cal, src_gs, ref_gs, ucalls>>

GetBlOrder ==
    /\ blorder' = get_bl_order
    /\ blfirst' = IF blfirst = <<>> THEN get_bl_order ELSE blfirst
    /\ UNCHANGED <<data, data0, azeldict, chi0, cal, src_gs, ref_gs, cdata, ret, loc,
                   ncalls, ucalls>>

(* ------------------------------- unrot --------------------------------- *)
\* a geometry of `rows` samples; seed 0: chi = 0; seed 1: chi varies with antenna
\* and time; seed 2: chi is that of the reference antenna on the equatorial
\* mounts and 0 elsewhere. vpat: which samples have a non-zero azimuth.
\* tpat 0 samples on the data's time grid, 1 off it.
Geo(seed, rows, vpat, tpat) ==
    [Time |-> [r \in Range0(rows) |-> IF tpat = 0 THEN 10 * (r + 1) ELSE 9 + 6 * r],
     ActualAzimuth |-> [r \in Range0(rows) |->
        IF vpat = "all" THEN 5 + r
        ELSE IF vpat = "first0" THEN (IF r = 0 THEN 0 ELSE 5 + r)
        ELSE 0],
     ParallacticAngle |-> [r \in Range0(rows) |-> [a \in Range0(NAntGain) |->
        IF seed = 0 THEN 0
        ELSE IF seed = 1 THEN (a * (r + 1) + r) % 4
        ELSE IF a \in {8, 9, 10, 12, 13} THEN 1 ELSE 0]]]

\* get_sql_info(trange): the geometry the antenna-state provider returns
get_sql_info == Geo(1, NT, "all", 0)

\* a type-11 record relative to a data frequency axis: a zero (unused) slot,
\* then the data's frequencies (pat 0), or the data's frequencies but the
\* first, and one the data does not hold (pat 1). seed selects the phases.
CalRec(seed, pat, fghz) ==
    LET axis == IF pat = 0
                THEN [c \in Range0(NF + 1) |-> IF c = 0 THEN 0 ELSE fghz[c - 1]]
                ELSE [c \in Range0(NF + 1) |->
                        IF c = 0 THEN 0 ELSE IF c = NF THEN 170 ELSE fghz[c]]
    IN  [fghz |-> axis,
         dph  |-> [a \in Range0(NAntGain) |-> [c \in DOMAIN axis |->
                    IF seed = 0 THEN 0
                    ELSE IF seed = 1 THEN 1
                    ELSE IF seed = 2 THEN (a + c) % 4
                    ELSE c % 4]]]

\* faulty variant of EqAnts: the reference antenna corrected first
EqAntsRefFirst == <<13, 8, 9, 10, 12>>

\* for i in [8,9,10,12,13]
EqAnts == <<8, 9, 10, 12, 13>>

\* chi[:,i] -= chi[:,13], for the antennas of EqAnts in turn
RECURSIVE EqLoop(_, _)
EqLoop(chi, s) ==
    IF s > Len(EqAnts) THEN chi
    ELSE EqLoop([r \in DOMAIN chi |->
                    [chi[r] EXCEPT ![EqAnts[s]] = @ - chi[r][RefAnt]]],
                s + 1)

\* if i < 14 and j < 14 and i != j
NonExempt(k) == bl(k)[1] < XYAnts /\ bl(k)[2] < XYAnts /\ bl(k)[1] # bl(k)[2]

A1(dphi, dphj) == lobe(dphi - dphj)

\* faulty variant of A2: a2 without the quarter-turn offset
A2NoOffset(dphj) == -dphj

A2(dphj) == -dphj + HalfPi

A3(dphi) == dphi - HalfPi

\* data['x'][fidx1,k,p] *= exp(1j*a_p) for p = 1, 2, 3, on the non-exempt baselines
DelayX(x, dph, fidx1, fidx2) ==
    [f \in DOMAIN x |->
        IF \E q \in DOMAIN fidx1 : fidx1[q] = f
        THEN LET c == fidx2[CHOOSE q \in DOMAIN fidx1 : fidx1[q] = f]
             IN  [k \in DOMAIN x[f] |->
                    IF NonExempt(k)
                    THEN LET i == bl(k)[1]
                             j == bl(k)[2]
                         IN  [p \in DOMAIN x[f][k] |->
                                IF p = 1 THEN [n \in DOMAIN x[f][k][p] |->
                                        vMulUnit(x[f][k][p][n], A1(dph[i][c], dph[j][c]))]
                                ELSE IF p = 2 THEN [n \in DOMAIN x[f][k][p] |->
                                        vMulUnit(x[f][k][p][n], A2(dph[j][c]))]
                                ELSE IF p = 3 THEN [n \in DOMAIN x[f][k][p] |->
                                        vMulUnit(x[f][k][p][n], A3(dph[i][c]))]
                                ELSE x[f][k][p]]
                    ELSE x[f][k]]
        ELSE x[f]]

\* faulty variant of RotStep: products 3 and 1 read the products 0 and 2 just written
RotStepInPlace(v, cchi, schi) ==
    LET n0 == vAdd(vScale(v[0], cchi), vScale(v[3], schi))
        n2 == vAdd(vScale(v[2], cchi), vScale(v[1], schi))
    IN  [p \in Range0(4) |->
            IF p = 0 THEN n0
            ELSE IF p = 2 THEN n2
            ELSE IF p = 3 THEN vAdd(vScale(v[3], cchi), vScale(n0, -schi))
            ELSE vAdd(vScale(v[1], cchi), vScale(n2, -schi))]

\* the four assignments of the rotation, v the four products of data['x'][f,k,:,n]
RotStep(v, cchi, schi) ==
    [p \in Range0(4) |->
        IF p = 0 THEN vAdd(vScale(v[0], cchi), vScale(v[3], schi))
        ELSE IF p = 2 THEN vAdd(vScale(v[2], cchi), vScale(v[1], schi))
        ELSE IF p = 3 THEN vAdd(vScale(v[3], cchi), vScale(v[0], -schi))
        ELSE vAdd(vScale(v[1], cchi), vScale(v[2], -schi))]

\* dchi = chi[n,i] - chi[n,j]
DChi(chi, n, k) == chi[n][bl(k)[1]] - chi[n][bl(k)[2]]

\* the rotation loop over the time samples n < nrot and the non-exempt baselines
RotX(x, chi, nrot) ==
    [f \in DOMAIN x |-> [k \in DOMAIN x[f] |->
        IF NonExempt(k)
        THEN LET R == [n \in Range0(nrot) |->
                        RotStep([p \in Range0(4) |-> x[f][k][p][n]],
                                Cos(DChi(chi, n, k)), Sin(DChi(chi, n, k)))]
             IN  [p \in DOMAIN x[f][k] |-> [n \in DOMAIN x[f][k][p] |->
                    IF n < nrot THEN R[n][p] ELSE x[f][k][p][n]]]
        ELSE x[f][k]]]

\* the calibration record with its zero (unused) frequency slots dropped
CalGood(rec) ==
    LET cgood == WhereNonZero(rec.fghz)
    IN  [fghz |-> Take(rec.fghz, cgood),
         dph  |-> [a \in DOMAIN rec.dph |-> Take(rec.dph[a], cgood)]]

Unrot(useNone) ==
    /\ ncalls < MaxCalls
    /\ \E geo \in {IF useNone THEN get_sql_info ELSE azeldict} :
       \E chi \in {EqLoop(geo.ParallacticAngle, 1)},
          good \in {WhereNonZero(geo.ActualAzimuth)},
          crec \in {CalGood(cal)} :
       \E cv \in {common_val_idx(data.fghz, crec.fghz)} :
       \E xd \in {DelayX(data.x, crec.dph, cv[1], cv[2])} :
          LET nogood == DOMAIN good = {}
              missing == DOMAIN data.fghz \ {cv[1][q] : q \in DOMAIN cv[1]}
              nt == Len0(data.x[0][0][0])
              rows == Len0(chi)
              nrot == IF rows < nt THEN rows ELSE nt
          IN  /\ azeldict' = IF useNone THEN azeldict
                             ELSE [azeldict EXCEPT !.ParallacticAngle = chi]
              /\ IF nogood
                 THEN \* nearest_val_idx over no sample fails, before data is touched
                      /\ data' = data
                      /\ cdata' = NoData
                      /\ ret' = "NoValidGeometrySample"
                      /\ loc' = [op |-> "unrot", own |-> ~useNone, chi |-> chi,
                                 good |-> good]
                 ELSE /\ data' = [data EXCEPT !.x = xd]
                      /\ cdata' = [data EXCEPT !.x = RotX(xd, chi, nrot)]
                      \* chi[n,i] past the last geometry row: IndexError; otherwise
                      \* the loop ends and cdata[missing] = np.ma.masked indexes
                      \* the dict with an array: TypeError (unhashable)
                      /\ ret' = IF rows < nt THEN "IndexError" ELSE "TypeError"
                      /\ loc' = [op |-> "unrot", own |-> ~useNone, chi |-> chi,
                                 good |-> good,
                                 tidx |-> nearest_val_idx(data.time, Take(geo.Time, good)),
                                 fidx1 |-> cv[1], fidx2 |-> cv[2], dph |-> crec.dph,
                                 missing |-> missing, nrot |-> nrot,
                                 \* nothing is masked: line 216 raises first
                                 masked |-> {},
                                 dchi |-> [n \in Range0(nrot) |-> [k \in Range0(136) |->
                                             IF NonExempt(k) THEN DChi(chi, n, k) ELSE 0]]]
    /\ blorder' = get_bl_order
    /\ blfirst' = IF blfirst = <<>> THEN get_bl_order ELSE blfirst
    /\ ncalls' = ncalls + 1
    /\ ucalls' = IF useNone THEN ucalls ELSE ucalls + 1
    /\ data0' = data
    /\ UNCHANGED <<chi0, cal, src_gs, ref_gs>>

UnrotCaller == Unrot(FALSE)
UnrotQuery == Unrot(TRUE)

(* ------------------------- the state machine --------------------------- *)
\* what the caller holds: a dataset (frequency pattern, value seed), a
\* geometry, a calibration record and the two gain states the provider returns
Scene(fp, sd, g, cs, cp, s, r) ==
    [data |-> DataSet(fp, sd), geo |-> g,
     cal |-> CalRec(cs, cp, FreqAxis(fp)), src |-> s, ref |-> r]

DefaultGeo == Geo(1, NT, "all", 0)
DefaultSrc == GainState(1, NT, 0)
DefaultRef == GainState(0, 3, 0)

\* the gain states range over their choices, under one geometry
GainScenes ==
    {Scene(0, 0, DefaultGeo, 2, 0, s, r) : s \in SrcChoices, r \in RefChoices}
    \cup {Scene(1, 1, DefaultGeo, 2, 0, s, GainState(0, 3, 0)) :
            s \in {GainState(0, NT, 0), GainState(2, NT, 2), GainState(1, NT + 1, 1)}}

\* the geometry and the calibration record range over theirs, under one gain state
GeoScenes ==
    {Scene(c[1], c[2], c[3], c[4], c[5], DefaultSrc, DefaultRef) : c \in
        {<<0, 0, Geo(0, NT, "all", 0), 0, 0>>,
         <<1, 1, Geo(0, NT, "all", 0), 1, 0>>,
         <<0, 1, Geo(0, NT, "all", 0), 3, 1>>,
         <<1, 0, Geo(0, NT, "all", 0), 2, 0>>,
         <<0, 0, Geo(2, NT, "all", 0), 0, 1>>,
         <<1, 1, Geo(2, NT, "all", 0), 3, 0>>,
         <<0, 1, Geo(1, NT, "all", 0), 2, 1>>,
         <<1, 0, Geo(1, NT, "all", 0), 0, 0>>,
         <<0, 0, Geo(1, NT + 1, "first0", 1), 2, 0>>,
         <<1, 1, Geo(1, NT + 1, "first0", 1), 1, 1>>,
         <<0, 1, Geo(1, NT + 1, "all", 1), 2, 1>>,
         <<1, 0, Geo(1, NT, "none", 0), 2, 0>>,
         <<0, 0, Geo(1, NT, "first0", 0), 3, 1>>}
        \cup (IF NT > 1 THEN {<<1, 1, Geo(1, NT - 1, "all", 0), 2, 0>>} ELSE {})}

Inputs == GainScenes \cup GeoScenes

Init ==
    \E inp \in Inputs :
        /\ data = inp.data
        /\ data0 = inp.data
        /\ azeldict = inp.geo
        /\ chi0 = inp.geo.ParallacticAngle
        /\ cal = inp.cal
        /\ src_gs = inp.src
        /\ ref_gs = inp.ref
        /\ cdata = NoData
        /\ ret = "none"
        /\ loc = [op |-> "none"]
        /\ blorder = <<>>
        /\ blfirst = <<>>
        /\ ncalls = 0
        /\ ucalls = 0

Next == ApplyAttnCorr \/ UnrotCaller \/ UnrotQuery \/ GetBlOrder

Spec == Init /\ [][Next]_vars

(* ------------------------------ claims --------------------------------- *)
\* the last call was unrot and it got as far as the rotation loop
UnrotRan == loc.op = "unrot" /\ ret \in {"TypeError", "IndexError"}

\* the last call was unrot and its rotation loop ran over every time sample
UnrotDone == loc.op = "unrot" /\ ret = "TypeError"

\* the four products of x at frequency f, baseline k, time n
Vec(x, f, k, n) == [p \in Range0(4) |-> x[f][k][p][n]]

\* C1 (as stated): a corrector call leaves every cell of the caller's
\* data['x'], ['px'], ['py'], ['time'] and ['fghz'] as it was before the call.
C1_InputNotMutated ==
    ret # "none" =>
        /\ data.x = data0.x
        /\ data.px = data0.px
        /\ data.py = data0.py
        /\ data.time = data0.time
        /\ data.fghz = data0.fghz

\* C2: get_bl_order() returns 136 pairs, no pair twice, the same sequence at
\* every call: the entries of order1, then the entries of order2 not in order1.
C2_BaselineOrder ==
    blorder # <<>> =>
        /\ Len(blorder) = 136
        /\ \A m1, m2 \in DOMAIN blorder : blorder[m1] = blorder[m2] => m1 = m2
        /\ blorder = blfirst
        /\ {blorder[m] : m \in DOMAIN blorder}
             = {<<i, j>> \in Range0(n_ants) \X Range0(n_ants) : i <= j}
        /\ SubSeq(blorder, 1, Len(BlOrder1)) = BlOrder1
        /\ SubSeq(blorder, Len(BlOrder1) + 1, Len(blorder))
             = SelectSeq(BlOrder2, LAMBDA o : ~InSeq(o, BlOrder1))

\* a call of get_bl_order() alone has returned, and order2 did hold a pair of order1
C2_Witness ==
    /\ blorder # <<>>
    /\ ncalls = 0
    /\ \E m \in DOMAIN BlOrder2 : InSeq(BlOrder2[m], BlOrder1)

\* the source gain state equals the reference gain state at every sample
SameGainState ==
    /\ \A a \in Range0(NAntGain) : \A t \in DOMAIN src_gs.times : \A r \in DOMAIN ref_gs.times :
          /\ src_gs.h1[a][t] = ref_gs.h1[a][r]
          /\ src_gs.h2[a][t] = ref_gs.h2[a][r]
          /\ src_gs.v1[a][t] = ref_gs.v1[a][r]
          /\ src_gs.v2[a][t] = ref_gs.v2[a][r]
    /\ src_gs.dcmattn = ref_gs.dcmattn

\* C3 (as stated): with the source gain state equal to the reference gain state,
\* apply_attn_corr returns x, px and py equal to the input in every cell, the
\* baselines of antenna 15 included.
C3_UnitGain ==
    (loc.op = "apply_attn_corr" /\ ret = "returned" /\ SameGainState) =>
        /\ cdata.x = data0.x
        /\ cdata.px = data0.px
        /\ cdata.py = data0.py

\* dchi = 0 on every baseline at every time, and equal delay phases on all antennas
C4_Pre ==
    /\ UnrotDone
    /\ \A n \in DOMAIN loc.dchi : \A k \in DOMAIN loc.dchi[n] : loc.dchi[n][k] = 0
    /\ \A i, j \in DOMAIN loc.dph : loc.dph[i] = loc.dph[j]

\* C4 (as stated): with dchi = 0 everywhere and equal delay phases, unrot leaves
\* every cell of x unchanged on all four products.
C4_Unchanged == C4_Pre => cdata.x = data0.x

\* C4 (amended): with dchi = 0 everywhere and one delay phase d(f) on all
\* antennas, the x that unrot computes keeps products 0 and 1 in every cell, and
\* on the non-exempt baselines at the matched frequencies holds product 2 times
\* exp(i(pi/2 - d)) and product 3 times exp(i(d - pi/2)); elsewhere products 2
\* and 3 are kept too.
C4_Amended ==
    C4_Pre =>
        \A f \in DOMAIN cdata.x : \A k \in DOMAIN cdata.x[f] : \A n \in Range0(NT) :
            /\ cdata.x[f][k][0][n] = data0.x[f][k][0][n]
            /\ cdata.x[f][k][1][n] = data0.x[f][k][1][n]
            /\ IF NonExempt(k) /\ f \notin loc.missing
               THEN \E q \in DOMAIN loc.fidx1 :
                      /\ loc.fidx1[q] = f
                      /\ cdata.x[f][k][2][n]
                           = vMulUnit(data0.x[f][k][2][n], HalfPi - loc.dph[0][loc.fidx2[q]])
                      /\ cdata.x[f][k][3][n]
                           = vMulUnit(data0.x[f][k][3][n], loc.dph[0][loc.fidx2[q]] - HalfPi)
               ELSE /\ cdata.x[f][k][2][n] = data0.x[f][k][2][n]
                    /\ cdata.x[f][k][3][n] = data0.x[f][k][3][n]

\* the case of C4 with a matched frequency whose products 2 and 3 did change
C4_Witness ==
    /\ C4_Pre
    /\ loc.missing # DOMAIN data0.fghz
    /\ cdata.x # data0.x

\* C5 (as stated): unrot does not fail over a frequency absent from the type-11
\* record: it returns, with exactly the absent frequencies masked (none when
\* none is absent).
C5_ReturnsMasked ==
    (loc.op = "unrot" /\ ret \notin {"NoValidGeometrySample", "IndexError"}) =>
        (ret = "returned" /\ loc.masked = loc.missing)

\* C6: on every non-exempt baseline and time sample the rotation writes the four
\* products from the pre-rotation values, and the same rotation with -dchi
\* gives them back (also for an angle with cos = 3/5, sin = 4/5, scaled by 5).
C6_RotationInvertible ==
    UnrotRan =>
        \A f \in DOMAIN cdata.x : \A k \in DOMAIN cdata.x[f] : \A n \in Range0(loc.nrot) :
            NonExempt(k) =>
                /\ cdata.x[f][k][0][n]
                     = vAdd(vScale(data.x[f][k][0][n], Cos(loc.dchi[n][k])),
                            vScale(data.x[f][k][3][n], Sin(loc.dchi[n][k])))
                /\ cdata.x[f][k][3][n]
                     = vAdd(vScale(data.x[f][k][3][n], Cos(loc.dchi[n][k])),
                            vScale(data.x[f][k][0][n], -Sin(loc.dchi[n][k])))
                /\ cdata.x[f][k][2][n]
                     = vAdd(vScale(data.x[f][k][2][n], Cos(loc.dchi[n][k])),
                            vScale(data.x[f][k][1][n], Sin(loc.dchi[n][k])))
                /\ cdata.x[f][k][1][n]
                     = vAdd(vScale(data.x[f][k][1][n], Cos(loc.dchi[n][k])),
                            vScale(data.x[f][k][2][n], -Sin(loc.dchi[n][k])))
                /\ RotStep(Vec(cdata.x, f, k, n), Cos(-loc.dchi[n][k]), Sin(-loc.dchi[n][k]))
                     = Vec(data.x, f, k, n)
                /\ RotStep(RotStep(Vec(data.x, f, k, n), 3, 4), 3, -4)
                     = [p \in Range0(4) |-> vScale(data.x[f][k][p][n], 25)]

\* unrot has rotated some non-exempt baseline by a quarter turn or a half turn
C6_Witness ==
    /\ UnrotRan
    /\ \E n \in DOMAIN loc.dchi : \E k \in DOMAIN loc.dchi[n] :
          NonExempt(k) /\ loc.dchi[n][k] % 4 = 1
    /\ \E n \in DOMAIN loc.dchi : \E k \in DOMAIN loc.dchi[n] :
          NonExempt(k) /\ loc.dchi[n][k] % 4 = 2

\* C7 (as stated): the dchi used at data time n is chi[i] - chi[j] at the
\* geometry sample nearest in time to n among those with a non-zero azimuth.
C7_NearestValid ==
    UnrotRan =>
        \A n \in DOMAIN loc.dchi : \A k \in DOMAIN loc.dchi[n] :
            NonExempt(k) =>
                loc.dchi[n][k] = loc.chi[loc.good[loc.tidx[n]]][bl(k)[1]]
                                 - loc.chi[loc.good[loc.tidx[n]]][bl(k)[2]]

\* C8 (as stated): the band index of a frequency is round(fghz*2 - 1) - 1.
C8_BandRounded ==
    loc.op = "apply_attn_corr" =>
        \A f \in DOMAIN loc.blist : loc.blist[f] = Round(data0.fghz[f] * 2 - 10, 10) - 1

\* C8 (amended): the band index of a frequency is the integer part of
\* fghz*2 - 1, less 1: band + 1 <= fghz*2 - 1 < band + 2.
C8_BandTruncated ==
    loc.op = "apply_attn_corr" =>
        \A f \in DOMAIN loc.blist :
            /\ 10 * (loc.blist[f] + 1) <= data0.fghz[f] * 2 - 10
            /\ data0.fghz[f] * 2 - 10 < 10 * (loc.blist[f] + 2)

\* apply_attn_corr has looked up a frequency whose fghz*2 has a fraction above 1/2
C8_Witness ==
    /\ loc.op = "apply_attn_corr"
    /\ \E f \in DOMAIN loc.blist : (data0.fghz[f] * 2) % 10 > 5

\* C9 (as stated): whatever the number of gain-state samples, apply_attn_corr
\* returns x, px and py on the dataset's own time axis, each time sample
\* corrected by the gain-state sample nearest to it in time.
C9_KeepsTimeAxis ==
    loc.op = "apply_attn_corr" =>
        /\ ret = "returned"
        /\ \A f \in DOMAIN cdata.x : \A k \in DOMAIN cdata.x[f] : \A p \in DOMAIN cdata.x[f][k] :
              DOMAIN cdata.x[f][k][p] = DOMAIN data0.time
        /\ \A r \in DOMAIN cdata.px : DOMAIN cdata.px[r] = DOMAIN data0.time
        /\ \A r \in DOMAIN cdata.py : DOMAIN cdata.py[r] = DOMAIN data0.time
        /\ \A n \in DOMAIN data0.time : \A m \in DOMAIN src_gs.times :
              Abs(data0.time[n] - src_gs.times[loc.idx[n]])
                  <= Abs(data0.time[n] - src_gs.times[m])

\* C10: after one or more unrot calls on the caller's azeldict, its angle table
\* (the one the rotation reads) holds chi0[i] - chi0[13] for i in {8, 9, 10, 12},
\* 0 for antenna 13 and chi0 for every other antenna, at every time sample.
C10_EquatorialOnce ==
    ucalls >= 1 =>
        /\ \A r \in DOMAIN chi0 : \A a \in DOMAIN chi0[r] :
              azeldict.ParallacticAngle[r][a]
                = IF a \in {8, 9, 10, 12} THEN chi0[r][a] - chi0[r][13]
                  ELSE IF a = 13 THEN 0
                  ELSE chi0[r][a]
        /\ (loc.op = "unrot" /\ loc.own) => loc.chi = azeldict.ParallacticAngle

\* two unrot calls have shared an azeldict whose reference angle is not zero
C10_Witness ==
    /\ ucalls >= 2
    /\ \E r \in DOMAIN chi0 : chi0[r][13] # 0 /\ chi0[r][8] # chi0[r][13]

====
